---- MODULE Spec2Model ----
(***************************************************************************)
(* sqlynx: SQLEngine (engines/sql.py), SQLQueryTool (tools/sql.py),        *)
(* SQLResult (datamodels.py) and the exceptions of utils/exceptions.py.    *)
(*                                                                         *)
(* Spec      the life of one SQLQueryTool: the environment, the            *)
(*           construction of its SQLEngine, then generate_sql_query and    *)
(*           execute_sql_query calls, each followed statement by statement.*)
(* SpecNorm  normalize_result applied repeatedly to one raw outcome (an    *)
(*           OperationalError or a sqlalchemy Result).                     *)
(***************************************************************************)
EXTENDS Integers, Sequences, FiniteSets, TLC

\* ---------------------------------------------------------------- bounds
\* widest result and longest result of SpecNorm
MaxCols == 3
MaxRows == 5
\* number of normalize_result calls on one raw outcome in SpecNorm
MaxCalls == 2
\* widest and longest result the database returns in Spec
EngCols == 2
EngRows == 1

\* the database's rows are identified by the elements of RowIds
RowIds == {1, 2}

\* ------------------------------------------------- sqlalchemy raw outcomes
\* the value of column j in the database row k
Cell(k, j) == k * 10 + j

\* a sqlalchemy Row: the object result.fetchall() yields
Row(k, c) == [data |-> [j \in 1..c |-> Cell(k, j)]]

\* name of the j-th column of a result
ColName(j) == "col" \o ToString(j)

\* sequences over S of length 0..n
RECURSIVE SeqsUpTo(_, _)
SeqsUpTo(S, n) ==
    IF n = 0 THEN {<<>>}
    ELSE LET shorter == SeqsUpTo(S, n - 1)
         IN  shorter \cup {Append(s, e) : s \in {t \in shorter : Len(t) = n - 1}, e \in S}

\* a sqlalchemy Result of c columns whose unfetched rows are the rows ids
MkResult(c, ids) ==
    [kind |-> "Result", cls |-> "none", cause |-> "none",
     keys |-> [j \in 1..c |-> ColName(j)],
     rows |-> [i \in 1..Len(ids) |-> Row(ids[i], c)]]

\* the results of at most mc columns and mr rows
Results(mc, mr) == {MkResult(c, ids) : c \in 0..mc, ids \in SeqsUpTo(RowIds, mr)}

\* what the database reports when a statement fails
QueryFailures == {"syntax", "unknown_column", "constraint", "conn_lost"}

\* what the database reports when a connection cannot be opened
ConnectFailures == {"unreachable", "auth_rejected"}

\* the sqlalchemy.exc classes the drivers of DB_MODULES raise for a failure:
\* syntax errors are ProgrammingError and constraint violations are
\* IntegrityError under both pymysql and psycopg2, an unknown column is
\* OperationalError under pymysql (1054) and ProgrammingError under psycopg2,
\* connection-level failures are OperationalError
ExcClasses(cause) ==
    CASE cause = "syntax"         -> {"ProgrammingError"}
      [] cause = "unknown_column" -> {"OperationalError", "ProgrammingError"}
      [] cause = "constraint"     -> {"IntegrityError"}
      [] OTHER                    -> {"OperationalError"}

\* an exception object raised by sqlalchemy
MkError(cls, cause) ==
    [kind |-> "Error", cls |-> cls, cause |-> cause, keys |-> <<>>, rows |-> <<>>]

\* the OperationalError objects execute_query can return
OperationalErrors == {MkError("OperationalError", c) :
                        c \in {"unknown_column", "conn_lost", "unreachable", "auth_rejected"}}

\* isinstance(result, cls)
isinstance(result, cls) == result.kind = "Error" /\ result.cls = cls

\* str(error): the driver's message
str(error) == "(" \o error.cls \o ") " \o error.cause

\* result.keys()
keys(result) == result.keys

\* result.fetchall(): every row not fetched yet ...
fetchall(result) == result.rows

\* ... and the Result it leaves behind: exhausted, metadata kept
Drained(result) == [result EXCEPT !.rows = <<>>]

\* tuple(row)
tuple(row) == row.data

\* ------------------------------------------------------------ datamodels
\* pydantic validation of SQLResult.data: list[tuple[int | str | float]];
\* tuple[X] is the type of tuples of exactly one X
ValidData(data) == \A i \in 1..Len(data) : Len(data[i]) = 1

\* SQLResult(columns=, data=, metadata=): <<the model>>, or <<>> when
\* pydantic raises ValidationError
SQLResult(columns, data, metadata) ==
    IF ValidData(data)
    THEN <<[columns |-> columns, data |-> data, metadata |-> metadata]>>
    ELSE <<>>

\* normalize_result without the 'error' entry of the failure metadata
normalize_result_NoErrorKey(result) ==
    IF isinstance(result, "OperationalError")
    THEN SQLResult(<<>>, <<>>,
                   [is_visualizable |-> FALSE, is_single_value |-> FALSE])
    ELSE LET columns == keys(result)
             fetched == fetchall(result)
             data == [i \in 1..Len(fetched) |-> tuple(fetched[i])]
         IN  SQLResult(columns, data,
                       [is_visualizable |-> Len(columns) > 1 \/ Len(data) > 1,
                        is_single_value |-> Len(columns) = 1 /\ Len(data) = 1])

\* normalize_result with 'and' for 'or' in is_visualizable
normalize_result_VisAnd(result) ==
    IF isinstance(result, "OperationalError")
    THEN SQLResult(<<>>, <<>>,
                   [is_visualizable |-> FALSE, is_single_value |-> FALSE,
                    error |-> str(result)])
    ELSE LET columns == keys(result)
             fetched == fetchall(result)
             data == [i \in 1..Len(fetched) |-> tuple(fetched[i])]
         IN  SQLResult(columns, data,
                       [is_visualizable |-> Len(columns) > 1 /\ Len(data) > 1,
                        is_single_value |-> Len(columns) = 1 /\ Len(data) = 1])

\* normalize_result that leaves the column names out
normalize_result_NoColumns(result) ==
    IF isinstance(result, "OperationalError")
    THEN SQLResult(<<>>, <<>>,
                   [is_visualizable |-> FALSE, is_single_value |-> FALSE,
                    error |-> str(result)])
    ELSE LET columns == keys(result)
             fetched == fetchall(result)
             data == [i \in 1..Len(fetched) |-> tuple(fetched[i])]
         IN  SQLResult(<<>>, data,
                       [is_visualizable |-> Len(columns) > 1 \/ Len(data) > 1,
                        is_single_value |-> Len(columns) = 1 /\ Len(data) = 1])

\* ------------------------------------------------- SQLQueryTool.normalize
\* the value normalize_result returns: <<SQLResult>>, or <<>> when the
\* SQLResult constructor raised ValidationError
normalize_result(result) ==
    IF isinstance(result, "OperationalError")
    THEN LET error_message == str(result)
         IN  SQLResult(<<>>, <<>>,
                       [is_visualizable |-> FALSE,
                        is_single_value |-> FALSE,
                        error |-> error_message])
    ELSE LET columns == keys(result)
             fetched == fetchall(result)
             data == [i \in 1..Len(fetched) |-> tuple(fetched[i])]
             is_visualizable == Len(columns) > 1 \/ Len(data) > 1
             is_single_value == Len(columns) = 1 /\ Len(data) = 1
         IN  SQLResult(columns, data,
                       [is_visualizable |-> is_visualizable,
                        is_single_value |-> is_single_value])

\* the raw outcome after normalize_result(result) ran: an error is only
\* read, a Result has been fetched to its end
AfterNormalize(result) ==
    IF isinstance(result, "OperationalError") THEN result ELSE Drained(result)

\* -------------------------------------------------------------- SQLEngine
\* os.getenv(var) of a variable that is not set
None == "<None>"

REQUIRED_ENV_VARS == <<"DB_SCHEME", "DB_NAME", "DB_USER", "DB_PASSWORD", "DB_HOST">>

\* scheme -> (driver module, URL prefix, default port)
DB_MODULES ==
    [mysql      |-> <<"pymysql", "mysql+pymysql", "3306">>,
     postgresql |-> <<"psycopg2", "postgresql+psycopg2", "5432">>]

\* the variables the engine reads
EnvKeys == {REQUIRED_ENV_VARS[i] : i \in 1..Len(REQUIRED_ENV_VARS)} \cup {"DB_PORT"}

\* values DB_SCHEME is given
Schemes == {"mysql", "postgresql", "sqlite"}

\* the value of every other variable, when it is set
EnvValue(k) ==
    CASE k = "DB_NAME"     -> "shop"
      [] k = "DB_USER"     -> "app"
      [] k = "DB_PASSWORD" -> "secret"
      [] k = "DB_HOST"     -> "dbhost"
      [] k = "DB_PORT"     -> "6000"
      [] OTHER             -> None

\* the environments: any subset of the variables is set
Envs ==
    {[k \in EnvKeys |-> IF k \in P
                        THEN (IF k = "DB_SCHEME" THEN s ELSE EnvValue(k))
                        ELSE None] : P \in SUBSET EnvKeys, s \in Schemes}

\* ", ".join(names)
RECURSIVE Join(_, _)
Join(names, sep) ==
    IF names = <<>> THEN ""
    ELSE IF Len(names) = 1 THEN names[1]
    ELSE names[1] \o sep \o Join(Tail(names), sep)

\* the list cut after the first missing variable
MissingEnvVars_FirstOnly(e) ==
    LET all == SelectSeq(REQUIRED_ENV_VARS, LAMBDA v : e[v] = None)
    IN  IF all = <<>> THEN <<>> ELSE <<all[1]>>

\* [var for var in REQUIRED_ENV_VARS if os.getenv(var) is None]
MissingEnvVars(e) == SelectSeq(REQUIRED_ENV_VARS, LAMBDA v : e[v] = None)

\* the attributes of a SQLEngine before __init__ assigned them
NewSelf ==
    [db_host |-> None, db_name |-> None, db_password |-> None, db_port |-> None,
     db_scheme |-> None, db_user |-> None, uri |-> "", engine |-> FALSE]

\* the f-string of _build_uri
UriOf(db_url_prefix, me) ==
    db_url_prefix \o "://" \o me.db_user \o ":" \o me.db_password \o "@"
        \o me.db_host \o ":" \o me.db_port \o "/" \o me.db_name

\* -------------------------------------------------------------- the tool
\* user questions and the SQL texts the query engine and the agent produce
Questions == {"q1", "q2"}
SqlTexts == {"SELECT a", "SELECT b"}

\* self.user_question before generate_sql_query assigned it
Unset == "<unset>"

\* no raw outcome yet
NoRaw == MkError("none", "none")

\* text(None) inside execute_query
TextNoneError == MkError("TypeError", "text(None)")

\* what connection.execute(text(sql)) can produce for a SQL text
ExecuteOutcomes ==
    Results(EngCols, EngRows)
        \cup {MkError(cls, cause) : cls \in UNION {ExcClasses(c) : c \in QueryFailures},
                                    cause \in QueryFailures}

VARIABLES
    env,              \* the process environment: variable -> value or None
    installed,        \* the driver module of the scheme can be imported
    pc,               \* the statement the program is at
    exc,              \* the exception the last call raised to its caller
    missing_env_vars, \* the local list of _load_env_vars
    variable_name,    \* MissingEnvVarError.variable_name
    self,             \* the attributes of the SQLEngine
    check_outcome,    \* what the database answered to the liveness check
    connect_tried,    \* engine.connect() has been called
    conns,            \* connections currently open
    user_question,    \* SQLQueryTool.user_question
    arg,              \* the argument of the execute_sql_query call
    eqs,              \* the execute_query calls of this execute_sql_query call
    pending,          \* what connection.execute produced, inside the with block
    result,           \* the raw outcome execute_query returned
    norms,            \* the values normalize_result returned in this call
    regen_from,       \* the questions refine_sql_query regenerated from
    status,           \* how the last execute_sql_query call ended
    ret,              \* the value the last execute_sql_query call returned
    nraw0, nraw, nouts

evars == <<env, installed, pc, exc, missing_env_vars, variable_name, self,
           check_outcome, connect_tried, conns>>
tvars == <<user_question, arg, eqs, pending, result, norms, regen_from, status, ret>>
nvars == <<nraw0, nraw, nouts>>
vars == <<evars, tvars, nvars>>

\* the state before SQLQueryTool() in environment e
Start(e, inst) ==
    /\ env = e
    /\ installed = inst
    /\ pc = "new"
    /\ exc = "none"
    /\ missing_env_vars = <<>>
    /\ variable_name = ""
    /\ self = NewSelf
    /\ check_outcome = "none"
    /\ connect_tried = FALSE
    /\ conns = 0
    /\ user_question = Unset
    /\ arg = None
    /\ eqs = <<>>
    /\ pending = NoRaw
    /\ result = NoRaw
    /\ norms = <<>>
    /\ regen_from = <<>>
    /\ status = "none"
    /\ ret = <<>>

Init ==
    /\ \E e \in Envs, inst \in BOOLEAN : Start(e, inst)
    /\ nraw0 = NoRaw
    /\ nraw = NoRaw
    /\ nouts = <<>>

\* ------------------------------------------------------ SQLEngine.__init__
\* __init__ line 52: self._load_env_vars()
LoadEnvVars ==
    /\ pc = "new"
    /\ LET missing == MissingEnvVars(env)
       IN  /\ missing_env_vars' = missing
           /\ IF missing # <<>>
              THEN /\ variable_name' = Join(missing, ", ")
                   /\ exc' = "MissingEnvVarError"
                   /\ pc' = "ctor_failed"
                   /\ UNCHANGED self
              ELSE /\ self' = [self EXCEPT !.db_host = env["DB_HOST"],
                                           !.db_name = env["DB_NAME"],
                                           !.db_password = env["DB_PASSWORD"],
                                           !.db_port = env["DB_PORT"],
                                           !.db_scheme = env["DB_SCHEME"],
                                           !.db_user = env["DB_USER"]]
                   /\ pc' = "build_uri"
                   /\ UNCHANGED <<variable_name, exc>>
    /\ UNCHANGED <<env, installed, check_outcome, connect_tried, conns, tvars, nvars>>

\* _create_engine line 146: self.uri = self._build_uri()
BuildUri ==
    /\ pc = "build_uri"
    /\ IF self.db_scheme \notin DOMAIN DB_MODULES
       THEN /\ exc' = "ValueError"
            /\ pc' = "ctor_failed"
            /\ UNCHANGED self
       ELSE LET db_url_prefix == DB_MODULES[self.db_scheme][2]
                default_port == DB_MODULES[self.db_scheme][3]
            IN  IF ~installed
                THEN /\ exc' = "ImportError"
                     /\ pc' = "ctor_failed"
                     /\ UNCHANGED self
                ELSE LET ported == [self EXCEPT !.db_port =
                                       IF self.db_port \in {None, ""}
                                       THEN default_port ELSE self.db_port]
                     IN  /\ self' = [ported EXCEPT !.uri = UriOf(db_url_prefix, ported)]
                         /\ pc' = "create_engine"
                         /\ UNCHANGED exc
    /\ UNCHANGED <<env, installed, missing_env_vars, variable_name,
                   check_outcome, connect_tried, conns, tvars, nvars>>

\* _create_engine line 147: self.engine = create_engine(self.uri), which
\* opens no connection
CreateEngine ==
    /\ pc = "create_engine"
    /\ self' = [self EXCEPT !.engine = TRUE]
    /\ pc' = "check_connect"
    /\ UNCHANGED <<env, installed, exc, missing_env_vars, variable_name,
                   check_outcome, connect_tried, conns, tvars, nvars>>

\* a liveness check that answers True whatever connect did
CheckReturns_Always(answer) == TRUE

\* what _check_db_connection returns when engine.connect() answered answer
CheckReturns(answer) == answer = "ok"

\* _check_db_connection line 162, entering the with block; a failed
\* connect raises OperationalError, the function returns False and
\* _create_engine raises DatabaseConnectionError; on True _create_engine
\* returns the engine, after the with block when a connection was opened
CheckConnect ==
    /\ pc = "check_connect"
    /\ connect_tried' = TRUE
    /\ \E answer \in {"ok"} \cup ConnectFailures :
         /\ check_outcome' = answer
         /\ conns' = IF answer = "ok" THEN conns + 1 ELSE conns
         /\ IF CheckReturns(answer)
            THEN /\ pc' = IF answer = "ok" THEN "check_exit" ELSE "init_rest"
                 /\ UNCHANGED exc
            ELSE /\ exc' = "DatabaseConnectionError"
                 /\ pc' = "ctor_failed"
    /\ UNCHANGED <<env, installed, missing_env_vars, variable_name, self, tvars, nvars>>

\* _check_db_connection line 163: return True leaves the with block, which
\* closes the connection
CheckExit ==
    /\ pc = "check_exit"
    /\ conns' = conns - 1
    /\ pc' = "init_rest"
    /\ UNCHANGED <<env, installed, exc, missing_env_vars, variable_name, self,
                   check_outcome, connect_tried, tvars, nvars>>

\* __init__ lines 54-60 and SQLQueryTool.__init__: SQLDatabase, reflection,
\* the table index and the query engine
InitRest ==
    /\ pc = "init_rest"
    /\ pc' = "idle"
    /\ UNCHANGED <<env, installed, exc, missing_env_vars, variable_name, self,
                   check_outcome, connect_tried, conns, tvars, nvars>>

\* ------------------------------------------------------------ SQLQueryTool
\* generate_sql_query(q), called by the agent: stores the question; the SQL
\* the query engine answers goes back to the agent
GenerateSqlQuery ==
    /\ pc = "idle"
    /\ \E q \in Questions : user_question' = q
    /\ UNCHANGED <<evars, arg, eqs, pending, result, norms, regen_from, status, ret, nvars>>

\* a new entry of eqs: execute_query(sql) has been entered
Entered(sql) == [sql |-> sql, out |-> "running", success |-> FALSE, db |-> NoRaw]

\* execute_sql_query(sql), called by the agent, up to line 64 where
\* execute_query is entered
ExecuteSqlQuery ==
    /\ pc = "idle"
    /\ \E sql \in SqlTexts :
         /\ arg' = sql
         /\ eqs' = <<Entered(sql)>>
    /\ pending' = NoRaw
    /\ result' = NoRaw
    /\ norms' = <<>>
    /\ regen_from' = <<>>
    /\ status' = "running"
    /\ ret' = <<>>
    /\ exc' = "none"
    /\ pc' = "eq_connect"
    /\ UNCHANGED <<env, installed, missing_env_vars, variable_name, self,
                   check_outcome, connect_tried, conns, user_question, nvars>>

\* the entry of the running execute_query call, closed with its outcome
Closed(out, success, db) ==
    [eqs EXCEPT ![Len(eqs)] = [@ EXCEPT !.out = out, !.success = success, !.db = db]]

\* the exception classes execute_query catches
Caught == {"OperationalError"}

\* execute_query line 237: with self.engine.connect() as connection; a
\* failed connect raises OperationalError, caught at line 240
EqConnect ==
    /\ pc = "eq_connect"
    /\ \E answer \in {"ok"} \cup ConnectFailures :
         IF answer = "ok"
         THEN /\ conns' = conns + 1
              /\ pc' = "eq_execute"
              /\ UNCHANGED <<eqs, result>>
         ELSE LET error == MkError("OperationalError", answer)
              IN  /\ eqs' = Closed("returned", FALSE, error)
                  /\ result' = error
                  /\ pc' = "normalize"
                  /\ UNCHANGED conns
    /\ UNCHANGED <<env, installed, exc, missing_env_vars, variable_name, self,
                   check_outcome, connect_tried, user_question, arg, pending,
                   norms, regen_from, status, ret, nvars>>

\* execute_query line 238: connection.execute(text(sql_query))
EqExecute ==
    /\ pc = "eq_execute"
    /\ IF eqs[Len(eqs)].sql = None
       THEN pending' = TextNoneError
       ELSE \E outcome \in ExecuteOutcomes :
              /\ outcome.kind = "Error" => outcome.cls \in ExcClasses(outcome.cause)
              /\ pending' = outcome
    /\ pc' = "eq_exit"
    /\ UNCHANGED <<env, installed, exc, missing_env_vars, variable_name, self,
                   check_outcome, connect_tried, conns, user_question, arg,
                   eqs, result, norms, regen_from, status, ret, nvars>>

\* a connection closed on the return path only
ConnsAfterWith_LeakOnError(n, outcome) == IF outcome.kind = "Error" THEN n ELSE n - 1

\* the connections left open when the with block of execute_query is left
\* with outcome
ConnsAfterWith(n, outcome) == n - 1

\* execute_query lines 239-241: the with block is left, by return or by the
\* exception, and closes the connection; OperationalError is caught and
\* returned, any other exception goes to the caller of execute_sql_query
EqExit ==
    /\ pc = "eq_exit"
    /\ conns' = ConnsAfterWith(conns, pending)
    /\ pending' = NoRaw
    /\ IF pending.kind = "Result"
       THEN /\ eqs' = Closed("returned", TRUE, pending)
            /\ result' = pending
            /\ pc' = "normalize"
            /\ UNCHANGED <<exc, status>>
       ELSE IF pending.cls \in Caught
       THEN /\ eqs' = Closed("returned", FALSE, pending)
            /\ result' = pending
            /\ pc' = "normalize"
            /\ UNCHANGED <<exc, status>>
       ELSE /\ eqs' = Closed("raised", FALSE, pending)
            /\ exc' = pending.cls
            /\ status' = "raised"
            /\ pc' = "idle"
            /\ UNCHANGED result
    /\ UNCHANGED <<env, installed, missing_env_vars, variable_name, self,
                   check_outcome, connect_tried, user_question, arg, norms,
                   regen_from, ret, nvars>>

\* the value execute_sql_query returns, of the values normalize_result
\* returned in the call
Returns(ns) == ns[1]

\* execute_sql_query lines 65-68 and refine_sql_query lines 84-85:
\* normalize_result(result), then the refinement after a first failure or
\* the return of the call
Normalize ==
    /\ pc = "normalize"
    /\ LET normalized_result == normalize_result(result)
           success == eqs[Len(eqs)].success
       IN  /\ result' = AfterNormalize(result)
           /\ IF normalized_result = <<>>
              THEN /\ exc' = "ValidationError"
                   /\ status' = "raised"
                   /\ pc' = "idle"
                   /\ UNCHANGED <<norms, ret>>
              ELSE /\ norms' = Append(norms, normalized_result)
                   /\ IF Len(eqs) = 1 /\ ~success
                      THEN /\ pc' = "refine"
                           /\ UNCHANGED <<exc, status, ret>>
                      ELSE /\ ret' = Returns(norms')
                           /\ status' = "returned"
                           /\ pc' = "idle"
                           /\ UNCHANGED exc
    /\ UNCHANGED <<env, installed, missing_env_vars, variable_name, self,
                   check_outcome, connect_tried, conns, user_question, arg,
                   eqs, pending, regen_from, nvars>>

\* execute_sql_query line 67 and refine_sql_query lines 82-83: reads
\* self.user_question, regenerates the query from it and enters
\* execute_query with what the query engine answered
Refine ==
    /\ pc = "refine"
    /\ IF user_question = Unset
       THEN /\ exc' = "AttributeError"
            /\ status' = "raised"
            /\ pc' = "idle"
            /\ UNCHANGED <<eqs, regen_from>>
       ELSE /\ regen_from' = Append(regen_from, user_question)
            /\ \E new_query \in SqlTexts \cup {None} :
                 eqs' = Append(eqs, Entered(new_query))
            /\ pc' = "eq_connect"
            /\ UNCHANGED <<exc, status>>
    /\ UNCHANGED <<env, installed, missing_env_vars, variable_name, self,
                   check_outcome, connect_tried, conns, user_question, arg,
                   pending, result, norms, ret, nvars>>

Next ==
    \/ LoadEnvVars
    \/ BuildUri
    \/ CreateEngine
    \/ CheckConnect
    \/ CheckExit
    \/ InitRest
    \/ GenerateSqlQuery
    \/ ExecuteSqlQuery
    \/ EqConnect
    \/ EqExecute
    \/ EqExit
    \/ Normalize
    \/ Refine

Spec == Init /\ [][Next]_vars

\* ------------------------------------------------------------- SpecNorm
\* the raw outcomes normalize_result is applied to
RawOutcomes == OperationalErrors \cup Results(MaxCols, MaxRows)

\* a tool built in a complete environment, idle
InitNorm ==
    /\ \E e \in Envs : /\ \A k \in EnvKeys : e[k] # None
                       /\ e["DB_SCHEME"] = "mysql"
                       /\ Start(e, TRUE)
    /\ nraw0 \in RawOutcomes
    /\ nraw = nraw0
    /\ nouts = <<>>

\* one call normalize_result(nraw) on the same raw outcome object
NormalizeCall ==
    /\ Len(nouts) < MaxCalls
    /\ nouts' = Append(nouts, normalize_result(nraw))
    /\ nraw' = AfterNormalize(nraw)
    /\ UNCHANGED <<nraw0, evars, tvars>>

NextNorm == NormalizeCall

SpecNorm == InitNorm /\ [][NextNorm]_vars

\* ------------------------------------------------ properties of SpecNorm
\* the i-th normalize_result call returned a value
Returned(i) == i \in 1..Len(nouts) /\ nouts[i] # <<>>

\* the SQLResult the i-th call returned
Value(i) == nouts[i][1]

\* the number of unfetched rows the i-th call found in the raw outcome
RowsAt(i) == IF i = 1 THEN Len(nraw0.rows) ELSE 0

HasError(r) == "error" \in DOMAIN r.metadata

AllEmpty(r) ==
    /\ r.columns = <<>>
    /\ r.data = <<>>
    /\ ~r.metadata.is_visualizable
    /\ ~r.metadata.is_single_value

\* C2 as stated: metadata has 'error' iff columns and data are empty and
\* both flags are false
C2_ErrorIffAllEmpty ==
    \A i \in 1..Len(nouts) :
        Returned(i) => (HasError(Value(i)) <=> AllEmpty(Value(i)))

\* C2 amended: metadata has 'error' iff the raw outcome is a failure; with
\* 'error', columns and data are empty and both flags false; without
\* 'error' that happens only for a Result of no columns and no unfetched rows
C2_ErrorIffFailure ==
    \A i \in 1..Len(nouts) :
        Returned(i) =>
            /\ HasError(Value(i)) <=> (nraw0.kind = "Error")
            /\ HasError(Value(i)) => AllEmpty(Value(i))
            /\ (AllEmpty(Value(i)) /\ ~HasError(Value(i)))
                   => (Len(nraw0.keys) = 0 /\ RowsAt(i) = 0)

\* a failure was normalized: 'error' is there, everything else is empty
C2_Witness ==
    /\ Returned(1)
    /\ nraw0.kind = "Error"
    /\ HasError(Value(1))
    /\ AllEmpty(Value(1))

\* C3 as stated: a successful outcome of 0 rows gives is_visualizable =
\* false, is_single_value = false and no 'error', whatever its columns
C3_ZeroRowsNeither ==
    (Len(nouts) >= 1 /\ nraw0.kind = "Result" /\ Len(nraw0.rows) = 0) =>
        /\ Returned(1)
        /\ ~Value(1).metadata.is_visualizable
        /\ ~Value(1).metadata.is_single_value
        /\ ~HasError(Value(1))

\* C3 amended: a successful outcome of 0 rows gives is_single_value = false
\* and no 'error'; is_visualizable is false with at most one column and
\* true with two or more
C3_ZeroRows ==
    (Len(nouts) >= 1 /\ nraw0.kind = "Result" /\ Len(nraw0.rows) = 0) =>
        /\ Returned(1)
        /\ Value(1).metadata.is_visualizable <=> (Len(nraw0.keys) > 1)
        /\ ~Value(1).metadata.is_single_value
        /\ ~HasError(Value(1))
        /\ Value(1).data = <<>>

\* a Result of one column and no rows was normalized
C3_Witness ==
    /\ Len(nouts) >= 1
    /\ nraw0.kind = "Result"
    /\ Len(nraw0.rows) = 0
    /\ Len(nraw0.keys) = 1
    /\ Returned(1)

\* C4 as stated: a successful outcome of c columns and r rows is returned
\* with its column names and row tuples unchanged and in order,
\* is_visualizable = (c > 1 or r > 1), is_single_value = (c = 1 and r = 1),
\* and never both flags
C4_SuccessShape ==
    (Len(nouts) >= 1 /\ nraw0.kind = "Result") =>
        LET c == Len(nraw0.keys)
            r == Len(nraw0.rows)
        IN  /\ Returned(1)
            /\ Value(1).columns = nraw0.keys
            /\ Len(Value(1).data) = r
            /\ \A i \in 1..r : Value(1).data[i] = nraw0.rows[i].data
            /\ Value(1).metadata.is_visualizable <=> (c > 1 \/ r > 1)
            /\ Value(1).metadata.is_single_value <=> (c = 1 /\ r = 1)
            /\ ~(Value(1).metadata.is_visualizable /\ Value(1).metadata.is_single_value)

\* C5 as stated: two calls on the same raw outcome return equal values and
\* leave the raw outcome as it was
C5_Pure ==
    Len(nouts) >= 2 =>
        /\ nouts[1] = nouts[2]
        /\ nraw = nraw0

\* C5 amended: an error outcome is only read, so two calls on it return
\* equal values and leave it unchanged; a Result is fetched to its end by
\* the first call, so it is left with its columns and no rows, and a second
\* call returns its columns with empty data, which equals the first value
\* when the Result had no rows
C5_ReadsErrorDrainsResult ==
    /\ (Len(nouts) >= 1 /\ nraw0.kind = "Error") => nraw = nraw0
    /\ (Len(nouts) >= 1 /\ nraw0.kind = "Result") =>
           /\ nraw.rows = <<>>
           /\ nraw.keys = nraw0.keys
    /\ Len(nouts) >= 2 =>
           /\ (nraw0.kind = "Error" \/ Len(nraw0.rows) = 0) =>
                  (Returned(1) /\ nouts[1] = nouts[2])
           /\ nraw0.kind = "Result" =>
                  /\ Returned(2)
                  /\ Value(2).columns = nraw0.keys
                  /\ Value(2).data = <<>>

\* a Result of one column and rows was normalized twice
C5_Witness ==
    /\ Len(nouts) >= 2
    /\ nraw0.kind = "Result"
    /\ Len(nraw0.keys) = 1
    /\ Len(nraw0.rows) > 0
    /\ Returned(1)
    /\ Returned(2)
    /\ Value(1) # Value(2)

\* ---------------------------------------------------- properties of Spec
\* the statements of the tool, reached only through a constructed engine
ToolPcs == {"idle", "eq_connect", "eq_execute", "eq_exit", "normalize", "refine"}

\* the required variables that are not set
Absent == {k \in EnvKeys \ {"DB_PORT"} : env[k] = None}

\* the SQLResult of a failure with message msg
ErrorResult(msg) ==
    [columns |-> <<>>, data |-> <<>>,
     metadata |-> [is_visualizable |-> FALSE, is_single_value |-> FALSE, error |-> msg]]

\* C1 as stated: execute_query never raises; a failure the database
\* reports is returned as (False, error), anything else as (True, result)
C1_ExecuteNeverRaises ==
    \A i \in 1..Len(eqs) :
        (eqs[i].out # "running" /\ eqs[i].sql # None) =>
            /\ eqs[i].out = "returned"
            /\ eqs[i].success <=> (eqs[i].db.kind = "Result")

\* C6: when required variables are absent, construction fails with
\* MissingEnvVarError naming every absent one, before the URI is built, the
\* engine created or a connection tried; DB_PORT alone never causes it
C6_MissingEnvVars ==
    /\ (pc # "new" /\ Absent # {}) =>
           /\ pc = "ctor_failed"
           /\ exc = "MissingEnvVarError"
           /\ {missing_env_vars[i] : i \in 1..Len(missing_env_vars)} = Absent
           /\ Len(missing_env_vars) = Cardinality(Absent)
           /\ Absent = {"DB_PASSWORD"} => variable_name = "DB_PASSWORD"
           /\ Absent = {"DB_NAME", "DB_HOST"} => variable_name = "DB_NAME, DB_HOST"
           /\ Cardinality(Absent) = 5 =>
                  variable_name = "DB_SCHEME, DB_NAME, DB_USER, DB_PASSWORD, DB_HOST"
           /\ self.uri = ""
           /\ ~self.engine
           /\ ~connect_tried
           /\ check_outcome = "none"
           /\ conns = 0
    /\ Absent = {} => exc # "MissingEnvVarError"

\* construction failed with two required variables absent
C6_Witness ==
    /\ pc = "ctor_failed"
    /\ exc = "MissingEnvVarError"
    /\ Absent = {"DB_NAME", "DB_HOST"}
    /\ env["DB_PORT"] = None

\* C7: a database that is unreachable or rejects the credentials when the
\* engine is opened makes construction fail with DatabaseConnectionError,
\* and the tool runs only on an engine whose liveness check succeeded
C7_EagerLiveness ==
    /\ check_outcome \in ConnectFailures =>
           (pc = "ctor_failed" /\ exc = "DatabaseConnectionError")
    /\ (pc \in ToolPcs \/ eqs # <<>>) => check_outcome = "ok"
    /\ pc \in {"check_exit", "init_rest"} => check_outcome = "ok"

\* construction failed on rejected credentials
C7_Witness ==
    /\ pc = "ctor_failed"
    /\ exc = "DatabaseConnectionError"
    /\ check_outcome = "auth_rejected"
    /\ self.engine

\* C8: a connection is open only inside the with block of a liveness
\* check or of one execute_query call, at most one at any time, and none
\* once the call has returned or raised
C8_ScopedConnection ==
    /\ conns \in {0, 1}
    /\ conns = 1 <=> pc \in {"check_exit", "eq_execute", "eq_exit"}

\* an execute_query call left its with block by an exception that was not
\* caught, and no connection is open
C8_Witness ==
    /\ pc = "idle"
    /\ status = "raised"
    /\ eqs # <<>>
    /\ eqs[Len(eqs)].out = "raised"
    /\ conns = 0

\* C9 as stated: an execute_sql_query call whose SQL fails in the database
\* does not raise and returns the SQLResult of the failure: no columns, no
\* data, both flags false, 'error' the database's message
C9_FailureIsReturned ==
    (status \in {"returned", "raised"} /\ eqs[1].db.cause \in QueryFailures) =>
        /\ status = "returned"
        /\ ret = <<ErrorResult(str(eqs[1].db))>>

\* C10 as stated: after a failed first execution the query is regenerated
\* from the stored question and executed once more, and the result of that
\* second execution is returned; after a successful first execution
\* nothing is regenerated or executed again
C10_RetryOnceReturnsRefined ==
    /\ Len(eqs) <= 2
    /\ status = "returned" =>
           IF eqs[1].success
           THEN Len(eqs) = 1 /\ regen_from = <<>>
           ELSE /\ Len(eqs) = 2
                /\ regen_from = <<user_question>>
                /\ Len(norms) = 2
                /\ ret = norms[2]
====
